---- MODULE Spec2Model ----
(***************************************************************************)
(* Model of the theme-merging engine of src/lib/theme-utils.ts:            *)
(* overwriteTheme, deepMergeTokenColor and deepMergeTheme.                 *)
(*                                                                         *)
(* Encoding of JavaScript values                                           *)
(*   - a scope string is the sequence of its space-separated words, so     *)
(*     <<"a","b">> is the string "a b" and <<"a">> the string "a";         *)
(*   - a rule's scope field is [isArray, val]: an array of scope strings,  *)
(*     or (isArray = FALSE) one string held as val[1];                     *)
(*   - an object with a fixed key universe is a total function in which    *)
(*     Absent marks a key the object does not have, Null the value null    *)
(*     and Undef the value undefined;                                      *)
(*   - an optional property is a sequence of length 0 (missing) or 1.      *)
(***************************************************************************)
EXTENDS Integers, Sequences, FiniteSets, TLC

VARIABLES
    op,         \* the operation performed last
    baseRules,  \* reconciler: the rule list the run started from
    prev,       \* reconciler: the rule list before the last call
    last,       \* reconciler: the new rules passed so far, oldest first
    rules,      \* reconciler: the current rule list
    baseTheme,  \* merge call: argument baseTheme
    sources,    \* merge call: argument sources
    result      \* merge call: [thrown, theme] once the call has returned

vars == <<op, baseRules, prev, last, rules, baseTheme, sources, result>>

(***************************************************************************)
(* Bounds                                                                  *)
(***************************************************************************)
MaxBaseRules == 2
MaxCalls == 2
MaxSources == 2

(***************************************************************************)
(* Values                                                                  *)
(***************************************************************************)
Absent == "absent"
Null == "null"
Undef == "undefined"

None == <<>>
Some(v) == <<v>>
IsSome(o) == Len(o) = 1

Range(q) == {q[i] : i \in 1..Len(q)}

SeqsUpTo(S, n) == UNION {[1..k -> S] : k \in 0..n}

RECURSIVE Flat(_)
Flat(groups) ==
    IF groups = <<>> THEN <<>> ELSE Head(groups) \o Flat(Tail(groups))

\* interface TokenColor: scope: string[] | string
ArrScope(xs) == [isArray |-> TRUE, val |-> xs]
StrScope(s) == [isArray |-> FALSE, val |-> <<s>>]

Attrs == {"foreground", "fontStyle"}

Settings(fg, fs) == [a \in Attrs |-> IF a = "foreground" THEN fg ELSE fs]

TokenColor(scope, settings) == [scope |-> scope, settings |-> settings]

\* String.prototype.split(' ')
Split(s) == [i \in 1..Len(s) |-> <<s[i]>>]

(***************************************************************************)
(* deepMergeTokenColor                                                     *)
(***************************************************************************)
\* Array.isArray(rule.scope) ? rule.scope : [ rule.scope ]
ScopesOf(rule) == rule.scope.val

\* scopeToIndex.get(scope) ?? null, with 0 for null; a later rule's
\* scopeToIndex.set overwrites an earlier one's
ScopeToIndex(baseTokenColors, scope) ==
    LET owners == {i \in 1..Len(baseTokenColors) :
                      scope \in Range(ScopesOf(baseTokenColors[i]))}
    IN  IF owners = {} THEN 0
        ELSE CHOOSE i \in owners : \A j \in owners : j <= i

\* the keys of scopesByGroup in insertion order
RECURSIVE GroupKeys(_, _, _)
GroupKeys(baseTokenColors, newScopes, seen) ==
    IF newScopes = <<>> THEN <<>>
    ELSE LET index == ScopeToIndex(baseTokenColors, Head(newScopes))
         IN  IF index \in seen
             THEN GroupKeys(baseTokenColors, Tail(newScopes), seen)
             ELSE <<index>> \o GroupKeys(baseTokenColors, Tail(newScopes),
                                         seen \cup {index})

\* scopesByGroup.get(index)
ScopesByGroup(baseTokenColors, newScopes, index) ==
    SelectSeq(newScopes, LAMBDA s : ScopeToIndex(baseTokenColors, s) = index)

\* Array.isArray(ruleInGroup.scope) ? ruleInGroup.scope : ruleInGroup.scope.split(' ')
RuleScopes(ruleInGroup) ==
    IF ruleInGroup.scope.isArray THEN ruleInGroup.scope.val
    ELSE Split(ruleInGroup.scope.val[1])

\* { ...ruleInGroup.settings, ...newSettings } followed by the deletion of
\* every key whose new value is null
MergedSettings(oldSettings, newSettings) ==
    [a \in Attrs |->
        IF newSettings[a] = Absent THEN oldSettings[a]
        ELSE IF newSettings[a] = Null THEN Absent
        ELSE newSettings[a]]

\* ApplyGroup without the split: the new settings are merged into the whole
\* existing rule, uncovered scopes included
ApplyGroupWholeRule(res, index, scopes, newSettings) ==
    IF index = 0
    THEN Append(res, <<TokenColor(ArrScope(scopes), newSettings)>>)
    ELSE LET ruleInGroup == res[index][1]
         IN  [res EXCEPT ![index] =
                 <<[ruleInGroup EXCEPT
                       !.scope = ArrScope(RuleScopes(ruleInGroup)),
                       !.settings = MergedSettings(ruleInGroup.settings,
                                                   newSettings)]>>]

\* the body of the loop over scopesByGroup.entries(), for one entry
ApplyGroup(res, index, scopes, newSettings) ==
    IF index = 0
    THEN Append(res, <<TokenColor(ArrScope(scopes), newSettings)>>)
    ELSE LET ruleInGroup == res[index][1]
             ruleScopes == RuleScopes(ruleInGroup)
             scopesInGroupToModify == Range(scopes)
             intersectingScopes ==
                 SelectSeq(ruleScopes, LAMBDA s : s \in scopesInGroupToModify)
             remainingScopes ==
                 SelectSeq(ruleScopes, LAMBDA s : s \notin scopesInGroupToModify)
             kept == IF remainingScopes # <<>>
                     THEN <<[ruleInGroup EXCEPT !.scope = ArrScope(remainingScopes)]>>
                     ELSE <<>>
             merged == IF intersectingScopes # <<>>
                       THEN <<[ruleInGroup EXCEPT
                                 !.scope = ArrScope(intersectingScopes),
                                 !.settings = MergedSettings(ruleInGroup.settings,
                                                             newSettings)]>>
                       ELSE <<>>
         IN  [res EXCEPT ![index] = kept \o merged]

RECURSIVE ApplyGroups(_, _, _, _)
ApplyGroups(res, keys, baseTokenColors, newRule) ==
    IF keys = <<>> THEN res
    ELSE ApplyGroups(
             ApplyGroup(res, Head(keys),
                        ScopesByGroup(baseTokenColors, ScopesOf(newRule), Head(keys)),
                        newRule.settings),
             Tail(keys), baseTokenColors, newRule)

\* result before result.flat(): one group of fragments per existing rule,
\* then the group of the brand-new rule
ResultGroups(baseTokenColors, newRule) ==
    ApplyGroups([i \in 1..Len(baseTokenColors) |-> <<baseTokenColors[i]>>],
                GroupKeys(baseTokenColors, ScopesOf(newRule), {}),
                baseTokenColors, newRule)

deepMergeTokenColor(baseTokenColors, newRule) ==
    Flat(ResultGroups(baseTokenColors, newRule))

(***************************************************************************)
(* Theme documents                                                         *)
(***************************************************************************)
\* interface Theme, plus one property ("name") outside the four handled ones
Theme(colors, tokenColors, semanticHighlighting, semanticTokenColors, name) ==
    [colors |-> colors, tokenColors |-> tokenColors,
     semanticHighlighting |-> semanticHighlighting,
     semanticTokenColors |-> semanticTokenColors, name |-> name]

EmptyTheme == Theme(None, None, None, None, None)

ColorKeys == {"editor.background", "editor.foreground"}

Colors(bg, fg) == [k \in ColorKeys |-> IF k = "editor.background" THEN bg ELSE fg]

SemanticKeys == {"variable"}

SemanticTokenColors(v) == [k \in SemanticKeys |-> v]

\* { ...obj } of an optional object over the given keys: {} when it is missing
Spread(obj, keys) == IF IsSome(obj) THEN obj[1] ELSE [k \in keys |-> Absent]

(***************************************************************************)
(* overwriteTheme                                                          *)
(***************************************************************************)
\* FilteredSource without the filter: every property of the source is kept
FilteredSourceUnfiltered(source) == source

\* sources.map(...): only the four handled properties are copied
FilteredSource(source) ==
    Theme(source.colors, source.tokenColors, source.semanticHighlighting,
          source.semanticTokenColors, None)

\* Object.assign(target, filteredSource): every property the source has
\* replaces the target's
Assign(target, filteredSource) ==
    [f \in DOMAIN target |->
        IF IsSome(filteredSource[f]) THEN filteredSource[f] ELSE target[f]]

RECURSIVE AssignAll(_, _)
AssignAll(target, themesToMerge) ==
    IF themesToMerge = <<>> THEN target
    ELSE AssignAll(Assign(target, Head(themesToMerge)), Tail(themesToMerge))

overwriteTheme(base, srcs) ==
    AssignAll(base, [i \in 1..Len(srcs) |-> FilteredSource(srcs[i])])

(***************************************************************************)
(* deepMergeTheme                                                          *)
(***************************************************************************)
\* MergeEntries without the test for undefined: every entry of the source
\* object is set
MergeEntriesAnyValue(accObj, sourceObj, keys) ==
    LET copy == Spread(accObj, keys)
    IN  IF IsSome(sourceObj)
        THEN [k \in keys |->
                 IF sourceObj[1][k] = Absent THEN copy[k] ELSE sourceObj[1][k]]
        ELSE copy

\* steps 1 and 3: every entry of the source object whose value is not
\* undefined is set on the copy of the accumulator's object
MergeEntries(accObj, sourceObj, keys) ==
    LET copy == Spread(accObj, keys)
    IN  IF IsSome(sourceObj)
        THEN [k \in keys |->
                 IF sourceObj[1][k] \in {Absent, Undef} THEN copy[k]
                 ELSE sourceObj[1][k]]
        ELSE copy

\* step 2: the loop over source.tokenColors ?? []; deepMergeTokenColor
\* calls baseTokenColors.entries(), a TypeError when it is undefined
RECURSIVE MergeTokenColors(_, _)
MergeTokenColors(finalTokenColors, newRules) ==
    IF newRules = <<>> THEN [thrown |-> FALSE, val |-> finalTokenColors]
    ELSE IF ~IsSome(finalTokenColors) THEN [thrown |-> TRUE, val |-> None]
    ELSE MergeTokenColors(
             Some(deepMergeTokenColor(finalTokenColors[1], Head(newRules))),
             Tail(newRules))

\* one iteration of the loop over sources
MergeSource(mergedTheme, source) ==
    LET newMergedColors ==
            MergeEntries(mergedTheme.colors, source.colors, ColorKeys)
        tokens ==
            MergeTokenColors(mergedTheme.tokenColors,
                             IF IsSome(source.tokenColors)
                             THEN source.tokenColors[1] ELSE <<>>)
        newSemanticTokenColors ==
            MergeEntries(mergedTheme.semanticTokenColors,
                         source.semanticTokenColors, SemanticKeys)
    IN  IF tokens.thrown THEN [thrown |-> TRUE, theme |-> mergedTheme]
        ELSE [thrown |-> FALSE,
              theme |-> [Assign(mergedTheme, source) EXCEPT
                            !.colors = Some(newMergedColors),
                            !.tokenColors = tokens.val,
                            !.semanticTokenColors = Some(newSemanticTokenColors)]]

RECURSIVE deepMergeTheme(_, _)
deepMergeTheme(base, srcs) ==
    IF srcs = <<>> THEN [thrown |-> FALSE, theme |-> base]
    ELSE LET step == MergeSource(base, Head(srcs))
         IN  IF step.thrown THEN step ELSE deepMergeTheme(step.theme, Tail(srcs))

(***************************************************************************)
(* Inputs of the reconciler runs                                           *)
(***************************************************************************)
sA == <<"a">>
sB == <<"b">>
sAB == <<"a", "b">>

BaseRuleSet ==
    { TokenColor(StrScope(sAB), Settings("#111", Absent)),
      TokenColor(StrScope(sA), Settings("#111", "italic")),
      TokenColor(ArrScope(<<sA, sB>>), Settings("#111", "italic")),
      TokenColor(ArrScope(<<sA>>), Settings(Absent, "bold")),
      TokenColor(ArrScope(<<sB>>), Settings("#333", Absent)) }

NewRuleSet ==
    { TokenColor(StrScope(sAB), Settings("#222", Absent)),
      TokenColor(StrScope(sB), Settings(Absent, Null)),
      TokenColor(ArrScope(<<sA>>), Settings("#222", Absent)),
      TokenColor(ArrScope(<<sB, sB>>), Settings(Absent, "underline")),
      TokenColor(ArrScope(<<sB, sA>>), Settings(Null, "underline")) }

BaseRuleLists == SeqsUpTo(BaseRuleSet, MaxBaseRules)

NoResult == [thrown |-> FALSE, theme |-> EmptyTheme]

(***************************************************************************)
(* Reconciler runs: a base list, then deepMergeTokenColor call after call  *)
(***************************************************************************)
InitReconcile ==
    /\ op = "init"
    /\ baseRules \in BaseRuleLists
    /\ rules = baseRules
    /\ prev = baseRules
    /\ last = <<>>
    /\ baseTheme = EmptyTheme
    /\ sources = <<>>
    /\ result = NoResult

Reconcile ==
    /\ Len(last) < MaxCalls
    /\ \E newRule \in NewRuleSet :
          /\ rules' = deepMergeTokenColor(rules, newRule)
          /\ last' = Append(last, newRule)
    /\ prev' = rules
    /\ op' = "reconcile"
    /\ UNCHANGED <<baseRules, baseTheme, sources, result>>

NextReconcile == Reconcile

SpecReconcile == InitReconcile /\ [][NextReconcile]_vars

(***************************************************************************)
(* Merge calls: the arguments are drawn, then one of the two merges runs   *)
(***************************************************************************)
BaseTokenColors ==
    { None,
      Some(<<TokenColor(StrScope(sAB), Settings("#111", Absent)),
             TokenColor(ArrScope(<<sA>>), Settings(Absent, "bold"))>>),
      Some(<<TokenColor(ArrScope(<<sA, sB>>), Settings("#111", "italic"))>>),
      Some(<<TokenColor(ArrScope(<<sA>>), Settings("#111", "italic"))>>) }

BaseThemes ==
    { Theme(Some(Colors("#111", Absent)), tc, Some(TRUE),
            Some(SemanticTokenColors("#111")), Some("base")) : tc \in BaseTokenColors }
    \cup { Theme(None, tc, None, None, None) : tc \in BaseTokenColors }

SourceColors ==
    { None, Some(Colors("#000", Undef)), Some(Colors(Undef, "#fff")) }

SourceTokenColors ==
    { None,
      Some(<<TokenColor(StrScope(sAB), Settings("#222", Absent))>>),
      Some(<<TokenColor(StrScope(sB), Settings(Absent, Null)),
             TokenColor(ArrScope(<<sA>>), Settings("#222", Absent))>>) }

SourceThemes ==
    { Theme(c, tc, None, None, None) : c \in SourceColors, tc \in SourceTokenColors }
    \cup { Theme(c, tc, Some(FALSE), Some(SemanticTokenColors("#222")), Some("source")) :
               c \in SourceColors, tc \in SourceTokenColors }
    \cup { Theme(None, None, None, None, Some("source")) }

InitMerge ==
    /\ op = "init"
    /\ baseTheme \in BaseThemes
    /\ sources \in SeqsUpTo(SourceThemes, MaxSources)
    /\ result = NoResult
    /\ baseRules = <<>>
    /\ prev = <<>>
    /\ last = <<>>
    /\ rules = <<>>

CallOverwriteTheme ==
    /\ op = "init"
    /\ result' = [thrown |-> FALSE, theme |-> overwriteTheme(baseTheme, sources)]
    /\ op' = "overwriteTheme"
    /\ UNCHANGED <<baseRules, prev, last, rules, baseTheme, sources>>

CallDeepMergeTheme ==
    /\ op = "init"
    /\ result' = deepMergeTheme(baseTheme, sources)
    /\ op' = "deepMergeTheme"
    /\ UNCHANGED <<baseRules, prev, last, rules, baseTheme, sources>>

NextMerge == CallOverwriteTheme \/ CallDeepMergeTheme

SpecMerge == InitMerge /\ [][NextMerge]_vars

(***************************************************************************)
(* Vocabulary of the reconciler properties                                 *)
(***************************************************************************)
LastRule == last[Len(last)]

\* every scope string mentioned by a rule list, one entry per mention
Mentions(list) == Flat([i \in 1..Len(list) |-> ScopesOf(list[i])])

ScopeSet(list) == Range(Mentions(list))

\* the scope-to-settings mapping of a rule list, as a set of pairs
Mapping(list) ==
    UNION {{<<s, list[i].settings>> : s \in Range(ScopesOf(list[i]))} :
              i \in 1..Len(list)}

\* every scope string is mentioned at most once in the whole list
NoDuplicateScope(list) == Cardinality(ScopeSet(list)) = Len(Mentions(list))

\* no scope string is claimed by two rules of the list
UniqueOwnership(list) ==
    \A i, j \in 1..Len(list) :
        i # j => Range(ScopesOf(list[i])) \cap Range(ScopesOf(list[j])) = {}

\* the list with every string-valued scope field stored as [s]
ArrayForm(list) ==
    [i \in 1..Len(list) |-> [list[i] EXCEPT !.scope = ArrScope(list[i].scope.val)]]

\* the positions of the rules of a list that mention scope s
Positions(list, s) == {i \in 1..Len(list) : s \in Range(ScopesOf(list[i]))}

(***************************************************************************)
(* C2. No duplicate scope ownership: when every scope string occurs at     *)
(* most once in the base list, it still occurs at most once after any      *)
(* sequence of reconciler calls.                                           *)
(***************************************************************************)
C2_NoDuplicateScope == NoDuplicateScope(baseRules) => NoDuplicateScope(rules)

(***************************************************************************)
(* C4. Idempotence: reconciling a rule a second time, right after it was   *)
(* reconciled once, leaves the scope-to-settings mapping as it was.        *)
(***************************************************************************)
C4_Idempotent ==
    (Len(last) >= 2 /\ last[Len(last)] = last[Len(last) - 1])
        => Mapping(rules) = Mapping(prev)

(***************************************************************************)
(* C8. String-scope equivalence: the call on a list produces the same      *)
(* scope-to-settings mapping as the call on the same list with every       *)
(* string scope s stored as the one-element array [s].                     *)
(***************************************************************************)
C8_StringScopeEquivalence ==
    op = "reconcile"
        => Mapping(rules) = Mapping(deepMergeTokenColor(ArrayForm(prev), LastRule))

(***************************************************************************)
(* C9. Reconciler frame.                                                   *)
(***************************************************************************)
Named(newRule) == Range(ScopesOf(newRule))

\* rule i of the existing list with only the scopes the new rule leaves out
Trimmed(rule, newRule) ==
    TokenColor(ArrScope(SelectSeq(ScopesOf(rule), LAMBDA s : s \notin Named(newRule))),
               rule.settings)

Frame(existing, newRule, out) ==
    /\ \A i \in 1..Len(existing) :
          LET own == Range(ScopesOf(existing[i]))
          IN  /\ own \cap Named(newRule) = {}
                   => \E j \in 1..Len(out) : out[j] = existing[i]
              /\ (own \cap Named(newRule) # {} /\ own \ Named(newRule) # {})
                   => \E j \in 1..Len(out) : out[j] = Trimmed(existing[i], newRule)
    /\ \A j \in 1..Len(out) :
          ~(Range(ScopesOf(out[j])) \subseteq Named(newRule))
              => \E i \in 1..Len(existing) : out[j].settings = existing[i].settings

\* C9 as claimed: the frame holds for every existing rule list
C9_FrameAnyList == op = "reconcile" => Frame(prev, LastRule, rules)

\* C9 as amended: the frame holds for every existing rule list in which no
\* scope is claimed by two rules: an untouched rule stays as it is, a partly
\* covered rule leaves its uncovered scopes with its settings, and a rule
\* holding a scope the new rule does not name carries an existing rule's
\* settings
C9_FrameUniqueOwnership ==
    (op = "reconcile" /\ UniqueOwnership(prev)) => Frame(prev, LastRule, rules)

\* a call that split a rule, left another untouched and added a new rule
C9_Witness ==
    /\ op = "reconcile"
    /\ UniqueOwnership(prev)
    /\ \E i \in 1..Len(prev) :
          /\ Range(ScopesOf(prev[i])) \cap Named(LastRule) # {}
          /\ Range(ScopesOf(prev[i])) \ Named(LastRule) # {}
          /\ prev[i].settings # MergedSettings(prev[i].settings, LastRule.settings)
    /\ Len(rules) > Len(prev)

(***************************************************************************)
(* C10. Output ordering: the brand-new rule of a call is last, and over    *)
(* any sequence of calls the scopes owned by different base rules keep     *)
(* their relative order.                                                   *)
(***************************************************************************)
Unclaimed(existing, newRule) ==
    SelectSeq(ScopesOf(newRule), LAMBDA s : ScopeToIndex(existing, s) = 0)

NewRuleLast ==
    (op = "reconcile" /\ Unclaimed(prev, LastRule) # <<>>)
        => /\ rules # <<>>
           /\ rules[Len(rules)] =
                  TokenColor(ArrScope(Unclaimed(prev, LastRule)), LastRule.settings)

BaseOrderKept ==
    \A i, j \in 1..Len(baseRules) :
        i < j =>
            \A s \in Range(ScopesOf(baseRules[i])), t \in Range(ScopesOf(baseRules[j])) :
                (Positions(baseRules, s) = {i} /\ Positions(baseRules, t) = {j})
                    => \A p \in Positions(rules, s), q \in Positions(rules, t) : p < q

C10_OrderKept == NewRuleLast /\ BaseOrderKept

(***************************************************************************)
(* Vocabulary of the merge-call properties                                 *)
(***************************************************************************)
Returned(name) == op = name /\ ~result.thrown

\* the rules of an optional tokenColors property
RulesOf(tokenColors) == IF IsSome(tokenColors) THEN tokenColors[1] ELSE <<>>

\* the base's rules followed by every source's rules, in application order
AllRules ==
    RulesOf(baseTheme.tokenColors)
        \o Flat([i \in 1..Len(sources) |-> RulesOf(sources[i].tokenColors)])

\* later non-null wins, null deletes
OverlayOne(acc, settings) ==
    [a \in Attrs |->
        CASE settings[a] = Absent -> acc[a]
          [] settings[a] = Null -> Absent
          [] OTHER -> settings[a]]

RECURSIVE Overlay(_, _, _)
Overlay(acc, list, s) ==
    IF list = <<>> THEN acc
    ELSE Overlay(IF s \in Range(ScopesOf(Head(list)))
                 THEN OverlayOne(acc, Head(list).settings) ELSE acc,
                 Tail(list), s)

\* the sources that have property f
Having(f) == {i \in 1..Len(sources) : IsSome(sources[i][f])}

LastOf(S) == CHOOSE i \in S : \A j \in S : j <= i

(***************************************************************************)
(* C1. Scope coverage: the scope strings mentioned by the result's         *)
(* tokenColors are exactly those mentioned by the base and by the rules    *)
(* of the sources.                                                         *)
(***************************************************************************)
C1_ScopeCoverage ==
    Returned("deepMergeTheme")
        => ScopeSet(RulesOf(result.theme.tokenColors)) = ScopeSet(AllRules)

(***************************************************************************)
(* C3. Settings correctness: the settings of every rule of the result      *)
(* equal, for each scope s it mentions, the overlay (base first, later     *)
(* non-null wins, null deletes) of the settings of every rule that         *)
(* mentions s.                                                             *)
(***************************************************************************)
C3_SettingsCorrect ==
    Returned("deepMergeTheme")
        => LET out == RulesOf(result.theme.tokenColors)
           IN  \A i \in 1..Len(out) :
                   \A s \in Range(ScopesOf(out[i])) :
                       out[i].settings = Overlay(Settings(Absent, Absent), AllRules, s)

(***************************************************************************)
(* C5. deepMergeTheme raises no error, whatever the base and the sources.  *)
(***************************************************************************)
C5_NoError == op = "deepMergeTheme" => ~result.thrown

(***************************************************************************)
(* C6. overwriteTheme: each of the four handled properties is the one of   *)
(* the last source that has it, whole, or the base's when no source has    *)
(* it; every other property is the base's.                                 *)
(***************************************************************************)
Handled == {"colors", "tokenColors", "semanticHighlighting", "semanticTokenColors"}

Defining(k) ==
    {i \in Having("colors") : sources[i].colors[1][k] \notin {Absent, Undef}}

====
